---- MODULE Spec2Model ----
(***************************************************************************)
(* A model of the Netatmo video-intercom API client                        *)
(* (custom_components/netatmo_intercom/netatmo_api.py).                    *)
(*                                                                         *)
(* One NetatmoAPI instance is shared by the callers of the host (Home      *)
(* Assistant runs api.authenticate, api.get_door_modules and api.open_door *)
(* in executor threads).  Every statement of the client that reads or      *)
(* writes the instance's token fields is one step of the calling thread;   *)
(* an HTTP call (request and response) is one step of the thread that      *)
(* makes it, and the server's answer is chosen nondeterministically.       *)
(*                                                                         *)
(* The token endpoint answers a request with an error, or with a JSON      *)
(* object that has an access_token or not, a refresh_token or not and a    *)
(* numeric expires_in or none.                                             *)
(*                                                                         *)
(* Values: a token is a positive integer (the number of the token response *)
(* that issued it), ids of homes and modules are positive integers, 0      *)
(* stands for a falsy non-None value ("" or 0), None for Python's None and *)
(* Absent for a key a JSON object does not have.  Time is in seconds.      *)
(*                                                                         *)
(* Specifications: Spec (one caller, the clock advances), SpecConc (two    *)
(* executor threads), SpecDoors (get_door_modules on every topology),      *)
(* SpecLive (one caller, a running thread keeps running), SpecRecover (the *)
(* server recovers at some point) and SpecSwitch (a NetatmoDoorSwitch over *)
(* the client).                                                            *)
(***************************************************************************)
EXTENDS Integers, Sequences, FiniteSets, TLC

\* ---------------------------------------------------------------- bounds
MaxIssued == 2       \* token responses the server issues in one behaviour
MaxTicks == 1        \* times the clock advances in one behaviour
StartTime == 100000  \* time.time() when the client is constructed
MaxHomes == 2        \* homes in a topology response
MaxModules == 4      \* modules in a topology response, over all its homes
MaxTimers == 2       \* pending _auto_turn_off callbacks of the switch

\* ------------------------------------------------------- program constants
DefaultExpiresIn == 10800   \* token_data.get("expires_in", 10800)
ExpiryMargin == 300         \* time.time() + expires_in - 300
Forbidden == 403            \* resp.status_code == 403

None == -1
Absent == -2
NoResponse == 0             \* requests raised before any response arrived

\* Python truthiness of an optional string or number: None, "" and 0 are falsy.
Truthy(x) == x # None /\ x # 0

\* dict.get(key, default) on a parsed JSON object.
Get(d, key, default) == IF d[key] = Absent THEN default ELSE d[key]

\* What the token endpoint may put in "expires_in" (Absent: the key is omitted)
\* and how far the clock advances in one tick.
ExpiresInValues == {Absent, 300, 3600}
TickSteps == {3300, 10500}

\* Status codes the topology and control endpoints answer with; NoResponse is
\* a transport failure (timeout, connection error).
TargetStatuses == {NoResponse, 200, Forbidden, 500}

\* The exceptions of the client.  HTTPError and ConnectionError are
\* requests.exceptions.RequestException; KeyError and JSONDecodeError are not
\* caught by `except requests.exceptions.RequestException`.
IsRequestException(e) == e \in {"HTTPError", "ConnectionError"}

Callers == {1, 2}

VARIABLES
    username, password, client_id, client_secret,   \* Credentials
    access_token, refresh_token, token_expires_at,  \* TokenState
    now,          \* time.time()
    ticks,        \* how often the clock advanced
    issued,       \* token responses issued by the server so far
    stamp,        \* history: the token response token_expires_at was computed from
    threads,      \* the callers that exist in this behaviour
    history,      \* whether the frames record their history (log, start)
    calls,        \* per caller: the frame of its call on the client
    doors,        \* the arguments the host passes to open_door
    homes_data,   \* the topology the server reports
    parsed,       \* the door modules extracted from homes_data (SpecDoors)
    recovered,    \* None, or the number of token responses issued when the
                  \* server began to accept the credentials and every token
                  \* it issues from then on
    is_on,        \* _attr_is_on of the NetatmoDoorSwitch
    scheduled     \* pending call_later(2, self._auto_turn_off) callbacks

vars == <<username, password, client_id, client_secret,
          access_token, refresh_token, token_expires_at,
          now, ticks, issued, stamp, threads, history, calls, doors,
          homes_data, parsed, recovered, is_on, scheduled>>

credentials == <<username, password, client_id, client_secret>>
TokenState == <<access_token, refresh_token, token_expires_at>>

\* ------------------------------------------------------- frames of a call
NoArgs == [home_id |-> None, timezone |-> None, bridge_id |-> None, module_id |-> None]
NoData == [access_token |-> Absent, refresh_token |-> Absent, expires_in |-> Absent]
NoForm == [grant_type |-> "none"]
NoResult == [kind |-> "none", exc |-> "none", status |-> None, call |-> 0, value |-> <<>>]
NoRequest == [method |-> "none", url |-> "none", bearer |-> None, json |-> <<>>]

IdleFrame ==
    [pc |-> "idle", op |-> "none", args |-> NoArgs,
     ctx |-> "none",          \* where authenticate/_refresh_access_token returns to
     token_data |-> NoData,   \* local token_data of authenticate/_refresh_access_token
     received |-> 0,          \* history: when the token response arrived
     form |-> NoForm,         \* form data of the last request to the token endpoint
     kwargs |-> NoRequest,    \* method, url and json of the request being made
     headers |-> None,        \* the bearer token in headers["Authorization"]
     req |-> NoRequest,       \* the last request sent to the target url
     resps |-> <<>>,          \* status of each response to this call's target requests
     log |-> <<>>,            \* history: calls and HTTP requests of this call, in order
     start |-> <<None, None, None, 0>>,   \* history: TokenState and time at invocation
     result |-> NoResult]

Frame(c) == calls[c]
At(c, loc) == c \in threads /\ calls[c].pc = loc
Logged(f, ev) == IF history THEN [f EXCEPT !.log = Append(@, ev)] ELSE f
Count(log, ev) == Cardinality({i \in DOMAIN log : log[i] = ev})

\* The call raises: the exception leaves the client and reaches the host.
Raise(f, e, status) ==
    [f EXCEPT !.pc = "done",
              !.result = [kind |-> "raise", exc |-> e, status |-> status,
                          call |-> 0, value |-> <<>>]]

\* The call raises the error of its k-th target request.
RaiseOf(f, e, status, k) ==
    [f EXCEPT !.pc = "done",
              !.result = [kind |-> "raise", exc |-> e, status |-> status,
                          call |-> k, value |-> <<>>]]

\* The call returns `value` to the host.
Return(f, value) ==
    [f EXCEPT !.pc = "done",
              !.result = [kind |-> "return", exc |-> "none", status |-> None,
                          call |-> Len(f.resps), value |-> <<value>>]]

\* authenticate() or _refresh_access_token() returns the access token `tok` to
\* the statement that called it: the host (api.authenticate), line 88 or 94 of
\* _ensure_valid_token, or line 110 of _make_authenticated_request.
TokenReturn(f, tok) ==
    CASE f.ctx = "top" -> Return(f, tok)
      [] f.ctx = "ensure" -> [f EXCEPT !.pc = "attach"]
      [] f.ctx = "on403" -> [f EXCEPT !.pc = "reattach"]

\* The token responses the server can give next: a JSON object with a fresh
\* access_token, an optional refresh_token and an optional expires_in.
TokenResponses ==
    IF issued < MaxIssued
    THEN [access_token : {issued + 1}, refresh_token : {Absent, issued + 1},
          expires_in : ExpiresInValues]
    ELSE {}

\* Mutant: no expiry time is computed for the token.
ExpiresAtNone(t, expires_in) == None

\* Mutant: the five minutes of margin are not taken off.
ExpiresAtNoMargin(t, expires_in) == t + expires_in

\* time.time() + expires_in - 300
ExpiresAt(t, expires_in) == t + expires_in - ExpiryMargin

PasswordForm ==
    [grant_type |-> "password", username |-> username, password |-> password,
     client_id |-> client_id, client_secret |-> client_secret]

RefreshForm ==
    [grant_type |-> "refresh_token", refresh_token |-> refresh_token,
     client_id |-> client_id, client_secret |-> client_secret]

ClientFrame == UNCHANGED <<username, password, client_id, client_secret, threads,
                           history, doors, homes_data, parsed, recovered, is_on,
                           scheduled>>

\* ------------------------------------------------------------ authenticate
\* Mutant: a failed password grant forgets the access token held.
AuthPostFailsForgets(c) ==
    /\ At(c, "auth_post")
    /\ \E e \in {"ConnectionError", "HTTPError"} :
          calls' = [calls EXCEPT ![c] =
              Raise(Logged([@ EXCEPT !.form = PasswordForm], "POST password"), e, None)]
    /\ access_token' = None
    /\ UNCHANGED <<refresh_token, token_expires_at, now, ticks, issued, stamp>>
    /\ ClientFrame

\* Lines 31-43: the password-grant request.  requests.post or raise_for_status
\* raises, or the response is a JSON object with or without an access_token.
AuthPostFails(c) ==
    /\ At(c, "auth_post") /\ recovered = None
    /\ \E e \in {"ConnectionError", "HTTPError"} :
          calls' = [calls EXCEPT ![c] =
              Raise(Logged([@ EXCEPT !.form = PasswordForm], "POST password"), e, None)]
    /\ UNCHANGED <<access_token, refresh_token, token_expires_at, now, ticks, issued, stamp>>
    /\ ClientFrame

AuthPostAnswered(c) ==
    /\ At(c, "auth_post")
    /\ \/ /\ \E td \in TokenResponses :
                calls' = [calls EXCEPT ![c] =
                    Logged([@ EXCEPT !.pc = "auth_set_access", !.form = PasswordForm,
                                     !.token_data = td, !.received = now],
                           "POST password")]
          /\ issued' = issued + 1
       \/ /\ recovered = None
          /\ calls' = [calls EXCEPT ![c] =
                    Logged([@ EXCEPT !.pc = "auth_set_access", !.form = PasswordForm,
                                     !.token_data = NoData], "POST password")]
          /\ UNCHANGED issued
    /\ UNCHANGED <<access_token, refresh_token, token_expires_at, now, ticks, stamp>>
    /\ ClientFrame

\* Line 44: self.access_token = token_data["access_token"] (KeyError when absent).
AuthSetAccess(c) ==
    /\ At(c, "auth_set_access")
    /\ IF Frame(c).token_data.access_token = Absent
       THEN /\ calls' = [calls EXCEPT ![c] = Raise(@, "KeyError", None)]
            /\ UNCHANGED access_token
       ELSE /\ access_token' = Frame(c).token_data.access_token
            /\ calls' = [calls EXCEPT ![c].pc = "auth_set_refresh"]
    /\ UNCHANGED <<refresh_token, token_expires_at, now, ticks, issued, stamp>>
    /\ ClientFrame

\* Line 45: self.refresh_token = token_data.get("refresh_token")
AuthSetRefresh(c) ==
    /\ At(c, "auth_set_refresh")
    /\ refresh_token' = Get(Frame(c).token_data, "refresh_token", None)
    /\ calls' = [calls EXCEPT ![c].pc = "auth_set_expires"]
    /\ UNCHANGED <<access_token, token_expires_at, now, ticks, issued, stamp>>
    /\ ClientFrame

\* Lines 47-51: expires_in, self.token_expires_at, return self.access_token.
AuthSetExpires(c) ==
    /\ At(c, "auth_set_expires")
    /\ LET expires_in == Get(Frame(c).token_data, "expires_in", DefaultExpiresIn)
       IN  /\ token_expires_at' = ExpiresAt(now, expires_in)
           /\ stamp' = [src |-> Frame(c).token_data.access_token, at |-> Frame(c).received,
                        expires_in |-> Frame(c).token_data.expires_in,
                        grant |-> "password"]
    /\ calls' = [calls EXCEPT ![c] = TokenReturn(@, access_token)]
    /\ UNCHANGED <<access_token, refresh_token, now, ticks, issued>>
    /\ ClientFrame

\* --------------------------------------------------- _refresh_access_token
\* Mutant: the refresh grant is sent whether a refresh token is held or not.
RefreshCheckAlwaysPosts(c) ==
    /\ At(c, "refresh_check")
    /\ calls' = [calls EXCEPT ![c] = [@ EXCEPT !.pc = "refresh_post", !.form = RefreshForm]]
    /\ UNCHANGED <<access_token, refresh_token, token_expires_at, now, ticks, issued, stamp>>
    /\ ClientFrame

\* Lines 55-57: without a refresh token, return self.authenticate().
RefreshCheck(c) ==
    /\ At(c, "refresh_check")
    /\ calls' = [calls EXCEPT ![c] =
          IF ~Truthy(refresh_token)
          THEN Logged([@ EXCEPT !.pc = "auth_post"], "authenticate")
          ELSE [@ EXCEPT !.pc = "refresh_post", !.form = RefreshForm]]
    /\ UNCHANGED <<access_token, refresh_token, token_expires_at, now, ticks, issued, stamp>>
    /\ ClientFrame

\* Mutant: the error of the refresh grant is raised to the caller.
OnRefreshFailureRaises(f, e) == Raise(f, e, None)

\* Mutant: a failed refresh grant is sent again.
OnRefreshFailureRepeats(f, e) == [f EXCEPT !.pc = "refresh_post"]

\* What lines 81-83 do with an exception of the refresh grant: a
\* RequestException is logged and self.authenticate() is returned, anything
\* else leaves the method.
OnRefreshFailure(f, e) ==
    IF IsRequestException(e)
    THEN Logged([f EXCEPT !.pc = "auth_post"], "authenticate")
    ELSE Raise(f, e, None)

\* Lines 67-71 and 81-83: the refresh-grant request.  A RequestException
\* (transport failure or error status) is caught and authenticate() is called.
RefreshPostFails(c) ==
    /\ At(c, "refresh_post")
    /\ \E e \in {"ConnectionError", "HTTPError"} :
          calls' = [calls EXCEPT ![c] = OnRefreshFailure(Logged(@, "POST refresh_token"), e)]
    /\ UNCHANGED <<access_token, refresh_token, token_expires_at, now, ticks, issued, stamp>>
    /\ ClientFrame

RefreshPostAnswered(c) ==
    /\ At(c, "refresh_post")
    /\ \/ /\ \E td \in TokenResponses :
                calls' = [calls EXCEPT ![c] =
                    Logged([@ EXCEPT !.pc = "refresh_set_access", !.token_data = td,
                                     !.received = now], "POST refresh_token")]
          /\ issued' = issued + 1
       \/ /\ recovered = None
          /\ calls' = [calls EXCEPT ![c] =
                    Logged([@ EXCEPT !.pc = "refresh_set_access", !.token_data = NoData],
                           "POST refresh_token")]
          /\ UNCHANGED issued
    /\ UNCHANGED <<access_token, refresh_token, token_expires_at, now, ticks, stamp>>
    /\ ClientFrame

\* Line 72: self.access_token = token_data["access_token"]; the KeyError of a
\* response without access_token is no RequestException and leaves the method.
RefreshSetAccess(c) ==
    /\ At(c, "refresh_set_access")
    /\ IF Frame(c).token_data.access_token = Absent
       THEN /\ calls' = [calls EXCEPT ![c] = Raise(@, "KeyError", None)]
            /\ UNCHANGED access_token
       ELSE /\ access_token' = Frame(c).token_data.access_token
            /\ calls' = [calls EXCEPT ![c].pc = "refresh_set_refresh"]
    /\ UNCHANGED <<refresh_token, token_expires_at, now, ticks, issued, stamp>>
    /\ ClientFrame

\* Mutant: a response without refresh_token clears the refresh token held.
RefreshSetRefreshOverwrites(c) ==
    /\ At(c, "refresh_set_refresh")
    /\ refresh_token' = Get(Frame(c).token_data, "refresh_token", None)
    /\ calls' = [calls EXCEPT ![c].pc = "refresh_set_expires"]
    /\ UNCHANGED <<access_token, token_expires_at, now, ticks, issued, stamp>>
    /\ ClientFrame

\* Line 73: self.refresh_token = token_data.get("refresh_token", self.refresh_token)
RefreshSetRefresh(c) ==
    /\ At(c, "refresh_set_refresh")
    /\ refresh_token' = Get(Frame(c).token_data, "refresh_token", refresh_token)
    /\ calls' = [calls EXCEPT ![c].pc = "refresh_set_expires"]
    /\ UNCHANGED <<access_token, token_expires_at, now, ticks, issued, stamp>>
    /\ ClientFrame

\* Lines 75-79: expires_in, self.token_expires_at, return self.access_token.
RefreshSetExpires(c) ==
    /\ At(c, "refresh_set_expires")
    /\ LET expires_in == Get(Frame(c).token_data, "expires_in", DefaultExpiresIn)
       IN  /\ token_expires_at' = ExpiresAt(now, expires_in)
           /\ stamp' = [src |-> Frame(c).token_data.access_token, at |-> Frame(c).received,
                        expires_in |-> Frame(c).token_data.expires_in,
                        grant |-> "refresh_token"]
    /\ calls' = [calls EXCEPT ![c] = TokenReturn(@, access_token)]
    /\ UNCHANGED <<access_token, refresh_token, now, ticks, issued>>
    /\ ClientFrame

\* ------------------------------------------------------ _ensure_valid_token
\* Mutant: the request goes on without a token when none is held.
EnsureCheckTokenSkips(c) ==
    /\ At(c, "ensure")
    /\ calls' = [calls EXCEPT ![c] = [@ EXCEPT !.pc = "ensure_expiry"]]
    /\ UNCHANGED <<access_token, refresh_token, token_expires_at, now, ticks, issued, stamp>>
    /\ ClientFrame

\* Lines 87-89: without an access token, authenticate() and return.
EnsureCheckToken(c) ==
    /\ At(c, "ensure")
    /\ calls' = [calls EXCEPT ![c] =
          IF ~Truthy(access_token)
          THEN Logged([@ EXCEPT !.pc = "auth_post"], "authenticate")
          ELSE [@ EXCEPT !.pc = "ensure_expiry"]]
    /\ UNCHANGED <<access_token, refresh_token, token_expires_at, now, ticks, issued, stamp>>
    /\ ClientFrame

\* Mutant: a token is expired only after token_expires_at.
IsExpiredLater(expires_at, t) == Truthy(expires_at) /\ t > expires_at

\* Line 92: self.token_expires_at and time.time() >= self.token_expires_at
IsExpired(expires_at, t) == Truthy(expires_at) /\ t >= expires_at

\* Lines 92-94: an expired token is refreshed.
EnsureCheckExpiry(c) ==
    /\ At(c, "ensure_expiry")
    /\ calls' = [calls EXCEPT ![c] =
          IF IsExpired(token_expires_at, now)
          THEN Logged([@ EXCEPT !.pc = "refresh_check"], "refresh")
          ELSE [@ EXCEPT !.pc = "attach"]]
    /\ UNCHANGED <<access_token, refresh_token, token_expires_at, now, ticks, issued, stamp>>
    /\ ClientFrame

\* ---------------------------------------------- _make_authenticated_request
\* Lines 100-102: headers["Authorization"] = f"Bearer {self.access_token}"
AttachHeader(c) ==
    /\ At(c, "attach")
    /\ calls' = [calls EXCEPT ![c] = [@ EXCEPT !.pc = "primary", !.headers = access_token]]
    /\ UNCHANGED <<access_token, refresh_token, token_expires_at, now, ticks, issued, stamp>>
    /\ ClientFrame

\* What the topology and control endpoints may answer to a request with this
\* bearer token: anything, until the server has recovered; from then on
\* success for a token issued since, and success or 403 for an older one.  The
\* token endpoint then accepts the credentials: a password grant succeeds, a
\* refresh grant succeeds or is rejected (the refresh token may be stale).
Answers(bearer) ==
    IF recovered = None THEN TargetStatuses
    ELSE IF bearer > recovered THEN {200}
    ELSE {200, Forbidden}

\* requests.request(method, url, timeout=10, **kwargs): the request goes out
\* with the headers as they are and the server's status comes back.
Sent(f, status) ==
    Logged([f EXCEPT !.req = [f.kwargs EXCEPT !.bearer = f.headers],
                     !.resps = Append(@, status)], "target")

\* Mutant: raise_for_status() on the first response, the retry's forgotten.
CheckedFirst(resps) == 1

\* The response that `resp` names when raise_for_status() runs at line 115:
\* line 113 rebinds resp to the retry's response.
CheckedResponse(resps) == Len(resps)

\* Mutant: the status of the response is not looked at.
SettleIgnoresStatus(f) == [f EXCEPT !.pc = "parse"]

\* Lines 115-116: resp.raise_for_status(); return resp.
Settle(f) ==
    LET k == CheckedResponse(f.resps)
    IN  IF f.resps[k] >= 400
        THEN RaiseOf(f, "HTTPError", f.resps[k], k)
        ELSE [f EXCEPT !.pc = "parse"]

\* Mutant: every error status of the first response refreshes and retries.
AfterPrimaryAnyError(f) ==
    IF f.resps[Len(f.resps)] >= 400
    THEN Logged([f EXCEPT !.pc = "refresh_check", !.ctx = "on403"], "refresh")
    ELSE Settle(f)

\* Mutant: a 403 is raised like every other error status.
AfterPrimaryNoRefresh(f) == Settle(f)

\* Lines 108-110: a 403 on the first response calls _refresh_access_token().
AfterPrimary(f) ==
    IF f.resps[Len(f.resps)] = Forbidden
    THEN Logged([f EXCEPT !.pc = "refresh_check", !.ctx = "on403"], "refresh")
    ELSE Settle(f)

\* Lines 105-116: the primary request.
PrimaryRequest(c) ==
    /\ At(c, "primary")
    /\ \E status \in Answers(Frame(c).headers) :
          calls' = [calls EXCEPT ![c] =
              IF status = NoResponse
              THEN RaiseOf(Sent(@, status), "ConnectionError", None, Len(@.resps) + 1)
              ELSE AfterPrimary(Sent(@, status))]
    /\ UNCHANGED <<access_token, refresh_token, token_expires_at, now, ticks, issued, stamp>>
    /\ ClientFrame

\* The bearer token of the retry, lines 111-112.
RetryBearer(f) == access_token

ReattachHeader(c) ==
    /\ At(c, "reattach")
    /\ calls' = [calls EXCEPT ![c] = [@ EXCEPT !.pc = "retry", !.headers = RetryBearer(@)]]
    /\ UNCHANGED <<access_token, refresh_token, token_expires_at, now, ticks, issued, stamp>>
    /\ ClientFrame

\* Mutant: a 403 on the retry refreshes and retries again.
AfterRetryAgain(f) == AfterPrimary(f)

\* What follows the retry's response: lines 115-116, whatever its status.
AfterRetry(f) == Settle(f)

\* Lines 113-116: the retry.
RetryRequest(c) ==
    /\ At(c, "retry")
    /\ \E status \in Answers(Frame(c).headers) :
          calls' = [calls EXCEPT ![c] =
              IF status = NoResponse
              THEN RaiseOf(Sent(@, status), "ConnectionError", None, Len(@.resps) + 1)
              ELSE AfterRetry(Sent(@, status))]
    /\ UNCHANGED <<access_token, refresh_token, token_expires_at, now, ticks, issued, stamp>>
    /\ ClientFrame

\* ------------------------------------------------------- get_door_modules
ModuleTypes == {"BFII", "BNDL", "NACamera"}

\* Lines 137-141: the id of the first module of type BFII, or None.
RECURSIVE FindBridge(_, _)
FindBridge(modules, i) ==
    IF i > Len(modules) THEN None
    ELSE IF modules[i].type = "BFII" THEN modules[i].id
    ELSE FindBridge(modules, i + 1)

\* Lines 149-156: the record of one door module.
DoorRecord(home, bridge_id, module) ==
    [home_id |-> home.id, home_name |-> home.name, timezone |-> home.timezone,
     bridge_id |-> bridge_id, module_id |-> module.id, module_name |-> module.name]

\* Lines 147-156: append a record for every module of type BNDL.
RECURSIVE AppendDoors(_, _, _, _)
AppendDoors(home, bridge_id, i, door_modules) ==
    IF i > Len(home.modules) THEN door_modules
    ELSE AppendDoors(home, bridge_id, i + 1,
            IF home.modules[i].type = "BNDL"
            THEN Append(door_modules, DoorRecord(home, bridge_id, home.modules[i]))
            ELSE door_modules)

\* Mutant: a home without a bridge is not skipped.
SkipHomeNever(bridge_id) == FALSE

\* Lines 143-144: `if not bridge_id: continue`
SkipHome(bridge_id) == ~Truthy(bridge_id)

\* Lines 132-156: the loop over the homes.
RECURSIVE HomesLoop(_, _, _)
HomesLoop(homes, h, door_modules) ==
    IF h > Len(homes) THEN door_modules
    ELSE LET bridge_id == FindBridge(homes[h].modules, 1)
         IN  HomesLoop(homes, h + 1,
                IF SkipHome(bridge_id) THEN door_modules
                ELSE AppendDoors(homes[h], bridge_id, 1, door_modules))

\* Lines 130-158 on the parsed response of get_homes_data().
GetDoorModules(homes) == HomesLoop(homes, 1, <<>>)

\* -------------------------------------------------------------- open_door
\* Mutant: the ids of the bridge and of the door module change places.
OpenDoorDataSwapped(home_id, timezone, bridge_id, module_id) ==
    [app_type |-> "app_camera", app_version |-> "4.1.1.3",
     home |-> [timezone |-> timezone, id |-> home_id,
               modules |-> << [bridge |-> module_id, lock |-> FALSE, id |-> bridge_id] >>]]

\* Lines 162-176: the fixed envelope of the control request.
OpenDoorData(home_id, timezone, bridge_id, module_id) ==
    [app_type |-> "app_camera", app_version |-> "4.1.1.3",
     home |-> [timezone |-> timezone, id |-> home_id,
               modules |-> << [bridge |-> bridge_id, lock |-> FALSE, id |-> module_id] >>]]

\* Lines 125 and 185-188: resp.json() of the successful response and the value
\* the operation returns; a body that is no JSON makes resp.json() raise.
ParseResponse(c) ==
    /\ At(c, "parse")
    /\ \/ calls' = [calls EXCEPT ![c] =
                RaiseOf(@, "JSONDecodeError", @.resps[Len(@.resps)], Len(@.resps))]
       \/ /\ Frame(c).op = "get_door_modules"
          /\ calls' = [calls EXCEPT ![c] = Return(@, GetDoorModules(homes_data))]
       \/ /\ Frame(c).op = "open_door"
          /\ calls' = [calls EXCEPT ![c] = Return(@, TRUE)]
    /\ UNCHANGED <<access_token, refresh_token, token_expires_at, now, ticks, issued, stamp>>
    /\ ClientFrame

\* ------------------------------------------------ the operations of the host
NoSnapshot == <<None, None, None, 0>>
Snapshot ==
    IF history THEN <<access_token, refresh_token, token_expires_at, now>> ELSE NoSnapshot

\* The arguments the host may pass to open_door (opaque strings, numbered; 0
\* is the empty string): no value occurs in two places.
ArgValues ==
    {[home_id |-> 1, timezone |-> 201, bridge_id |-> 11, module_id |-> 12],
     [home_id |-> 0, timezone |-> 0, bridge_id |-> 12, module_id |-> 11]}

\* api.authenticate(), called by the host (__init__.py line 40).
CallAuthenticate(c) ==
    /\ At(c, "idle")
    /\ calls' = [calls EXCEPT ![c] =
          [IdleFrame EXCEPT !.pc = "auth_post", !.op = "authenticate", !.ctx = "top",
                            !.log = IF history THEN <<"authenticate">> ELSE <<>>,
                            !.start = Snapshot]]
    /\ UNCHANGED <<access_token, refresh_token, token_expires_at, now, ticks, issued, stamp>>
    /\ ClientFrame

\* api.get_door_modules(): get_homes_data() makes the GET of line 124, which
\* begins with _ensure_valid_token() (line 98).
CallGetDoorModules(c) ==
    /\ At(c, "idle")
    /\ calls' = [calls EXCEPT ![c] =
          [IdleFrame EXCEPT !.pc = "ensure", !.op = "get_door_modules", !.ctx = "ensure",
                            !.kwargs = [method |-> "GET", url |-> "homesdata",
                                        bearer |-> None, json |-> <<>>],
                            !.start = Snapshot]]
    /\ UNCHANGED <<access_token, refresh_token, token_expires_at, now, ticks, issued, stamp>>
    /\ ClientFrame

\* api.open_door(home_id, timezone, bridge_id, module_id): lines 162-183.
CallOpenDoor(c) ==
    /\ At(c, "idle")
    /\ \E a \in doors :
          calls' = [calls EXCEPT ![c] =
              [IdleFrame EXCEPT
                  !.pc = "ensure", !.op = "open_door", !.ctx = "ensure", !.args = a,
                  !.kwargs = [method |-> "POST", url |-> "setstate", bearer |-> None,
                              json |-> <<OpenDoorData(a.home_id, a.timezone,
                                                      a.bridge_id, a.module_id)>>],
                  !.start = Snapshot]]
    /\ UNCHANGED <<access_token, refresh_token, token_expires_at, now, ticks, issued, stamp>>
    /\ ClientFrame

\* The call has returned or raised; the caller's thread is free again.
Finish(c) ==
    /\ At(c, "done")
    /\ calls' = [calls EXCEPT ![c] = IdleFrame]
    /\ UNCHANGED <<access_token, refresh_token, token_expires_at, now, ticks, issued, stamp>>
    /\ ClientFrame

\* Time passes while no call runs or while a call waits for the network; the
\* statements between two network calls take no time.
InHttp(c) == calls[c].pc \in {"auth_post", "refresh_post", "primary", "retry"}

Tick ==
    /\ ticks < MaxTicks
    /\ \/ \A c \in threads : calls[c].pc = "idle"
       \/ \E c \in threads : InHttp(c)
    /\ \E d \in TickSteps : now' = now + d
    /\ ticks' = ticks + 1
    /\ UNCHANGED <<access_token, refresh_token, token_expires_at, issued, stamp, calls>>
    /\ ClientFrame

\* ------------------------------------------------------------ topologies
\* The homes of a topology response: ids, names and timezones are distinct
\* opaque strings (numbered), the type of every module is free.
TypeSeqs(n) == UNION {[1..k -> ModuleTypes] : k \in 0..n}

Home(h, types) ==
    [id |-> h, name |-> 100 + h, timezone |-> 200 + h,
     modules |-> [m \in 1..Len(types) |->
                    [id |-> 10 * h + m, name |-> 1000 + 10 * h + m, type |-> types[m]]]]

RECURSIVE ModulesIn(_)
ModulesIn(homes) ==
    IF homes = <<>> THEN 0 ELSE Len(Head(homes).modules) + ModulesIn(Tail(homes))

\* The topologies of exactly n homes with at most MaxModules modules.
RECURSIVE TopologiesOf(_)
TopologiesOf(n) ==
    IF n = 0 THEN {<<>>}
    ELSE UNION {{Append(homes, Home(n, types)) :
                    types \in TypeSeqs(MaxModules - ModulesIn(homes))} :
                homes \in TopologiesOf(n - 1)}

Topologies == UNION {TopologiesOf(n) : n \in 0..MaxHomes}

\* Home H1 with bridge B1 and door D1 (the scenario of the specification).
SampleHomes == <<Home(1, <<"BFII", "BNDL">>)>>

NotParsed == [done |-> FALSE, value |-> <<>>]

\* ------------------------------------------------------------ init and next
\* The state after NetatmoAPI.__init__ (lines 19-27).
ClientInit ==
    /\ username = "username" /\ password = "password"
    /\ client_id = "client_id" /\ client_secret = "client_secret"
    /\ access_token = None /\ refresh_token = None /\ token_expires_at = None
    /\ now = StartTime /\ ticks = 0 /\ issued = 0
    /\ stamp = [src |-> None, at |-> 0, expires_in |-> Absent, grant |-> "none"]
    /\ calls = [c \in Callers |-> IdleFrame]
    /\ parsed = NotParsed
    /\ recovered = None
    /\ is_on = FALSE /\ scheduled = 0

Init ==
    /\ ClientInit /\ threads = {1} /\ history = TRUE
    /\ doors = ArgValues /\ homes_data = SampleHomes

\* The statements of the client that a running call executes next.
Run(c) ==
    \/ AuthPostFails(c) \/ AuthPostAnswered(c)
    \/ AuthSetAccess(c) \/ AuthSetRefresh(c) \/ AuthSetExpires(c)
    \/ RefreshCheck(c) \/ RefreshPostFails(c) \/ RefreshPostAnswered(c)
    \/ RefreshSetAccess(c) \/ RefreshSetRefresh(c) \/ RefreshSetExpires(c)
    \/ EnsureCheckToken(c) \/ EnsureCheckExpiry(c)
    \/ AttachHeader(c) \/ PrimaryRequest(c) \/ ReattachHeader(c) \/ RetryRequest(c)
    \/ ParseResponse(c)

Next ==
    \/ Tick
    \/ \E c \in Callers :
          CallAuthenticate(c) \/ CallGetDoorModules(c) \/ CallOpenDoor(c) \/ Finish(c) \/ Run(c)

\* One caller at a time uses the client.
Spec == Init /\ [][Next]_vars

\* Two switches of the host open their doors through the same client, each in
\* its own executor thread (switch.py line 89).  The clock stands still and
\* the frames record no history.
InitConc ==
    /\ ClientInit /\ threads = {1, 2} /\ history = FALSE /\ homes_data = SampleHomes
    /\ doors = {[home_id |-> 1, timezone |-> 201, bridge_id |-> 11, module_id |-> 12]}

NextConc == \E c \in Callers : CallOpenDoor(c) \/ Finish(c) \/ Run(c)

SpecConc == InitConc /\ [][NextConc]_vars

\* One caller at a time uses the client and the clock stands still.  A thread
\* that is inside a call keeps running: every statement of the client returns
\* or raises, and every HTTP call ends within its timeout of 10 seconds
\* (timeout=10 at lines 40, 68, 105 and 113).
InitLive ==
    /\ ClientInit /\ threads = {1} /\ history = TRUE /\ homes_data = SampleHomes
    /\ doors = {[home_id |-> 1, timezone |-> 201, bridge_id |-> 11, module_id |-> 12]}

NextLive ==
    \E c \in Callers :
        CallAuthenticate(c) \/ CallGetDoorModules(c) \/ CallOpenDoor(c) \/ Finish(c) \/ Run(c)

SpecLive == InitLive /\ [][NextLive]_vars /\ \A c \in Callers : WF_vars(Run(c))

\* The server recovers while no call runs: from now on the token endpoint
\* accepts the stored credentials and the tokens it issues are accepted.
Recover ==
    /\ recovered = None
    /\ \A c \in threads : calls[c].pc = "idle"
    /\ recovered' = issued
    /\ UNCHANGED <<username, password, client_id, client_secret, access_token,
                   refresh_token, token_expires_at, now, ticks, issued, stamp,
                   threads, history, calls, doors, homes_data, parsed, is_on,
                   scheduled>>

\* A call on a recovered server is started only while the server can still
\* issue the token the call may need (MaxIssued bounds the token responses).
CanAnswer == recovered = None \/ issued < MaxIssued

\* Operations fail and succeed in any order, one caller at a time; at some
\* point the server recovers.  A thread inside a call keeps running.
InitRecover == InitLive

NextRecover ==
    \/ Recover
    \/ \E c \in Callers :
          \/ CanAnswer /\ CallAuthenticate(c)
          \/ CanAnswer /\ CallGetDoorModules(c)
          \/ CanAnswer /\ CallOpenDoor(c)
          \/ Finish(c)
          \/ Run(c)

SpecRecover == InitRecover /\ [][NextRecover]_vars /\ \A c \in Callers : WF_vars(Run(c))

\* ------------------------------------------------------ NetatmoDoorSwitch
SwitchFrame ==
    UNCHANGED <<username, password, client_id, client_secret, access_token,
                refresh_token, token_expires_at, now, ticks, issued, stamp,
                threads, history, doors, homes_data, parsed, recovered>>

\* async_turn_on, line 89: self._open_door runs in an executor thread and
\* calls api.open_door with the ids of the switch's door module
\* (switch.py lines 111-117).
AsyncTurnOn(c) == scheduled < MaxTimers /\ CallOpenDoor(c)

\* Mutant: the switch is set on but no auto-turn-off is scheduled.
TurnOnReturnsNoTimer(c) ==
    /\ At(c, "done") /\ Frame(c).result.kind = "return"
    /\ is_on' = TRUE
    /\ calls' = [calls EXCEPT ![c] = IdleFrame]
    /\ UNCHANGED scheduled
    /\ SwitchFrame

\* async_turn_on, lines 89-94: the executor job has returned;
\* self._attr_is_on = True, the state is written and
\* self.hass.loop.call_later(2, self._auto_turn_off) schedules the reset.
TurnOnReturns(c) ==
    /\ At(c, "done") /\ Frame(c).result.kind = "return"
    /\ is_on' = TRUE
    /\ scheduled' = scheduled + 1
    /\ calls' = [calls EXCEPT ![c] = IdleFrame]
    /\ SwitchFrame

\* async_turn_on, lines 96-97: _open_door re-raised the error of open_door
\* (switch.py lines 124-126); the await raises, lines 90-94 are skipped and
\* `except Exception` logs the error.
TurnOnFails(c) ==
    /\ At(c, "done") /\ Frame(c).result.kind = "raise"
    /\ calls' = [calls EXCEPT ![c] = IdleFrame]
    /\ UNCHANGED <<is_on, scheduled>>
    /\ SwitchFrame

\* _auto_turn_off, lines 104-107: a scheduled callback runs.
AutoTurnOff ==
    /\ scheduled > 0
    /\ is_on' = FALSE
    /\ scheduled' = scheduled - 1
    /\ UNCHANGED calls
    /\ SwitchFrame

\* async_turn_off, lines 99-102: the user turns the switch off.
AsyncTurnOff ==
    /\ is_on
    /\ is_on' = FALSE
    /\ UNCHANGED <<calls, scheduled>>
    /\ SwitchFrame

\* One switch: the user turns it on and off, its executor job runs
\* api.open_door, and the event loop runs the scheduled callbacks (a callback
\* scheduled with call_later is run by the loop once its two seconds are
\* over).  The state after NetatmoDoorSwitch.__init__ (line 69: is_on False).
InitSwitch ==
    /\ ClientInit /\ threads = {1} /\ history = FALSE /\ homes_data = SampleHomes
    /\ doors = {[home_id |-> 1, timezone |-> 201, bridge_id |-> 11, module_id |-> 12]}

NextSwitch ==
    \/ AutoTurnOff
    \/ AsyncTurnOff
    \/ \E c \in Callers : AsyncTurnOn(c) \/ TurnOnReturns(c) \/ TurnOnFails(c) \/ Run(c)

SpecSwitch ==
    InitSwitch /\ [][NextSwitch]_vars /\ WF_vars(AutoTurnOff)
               /\ \A c \in Callers : WF_vars(Run(c))

\* The extraction of get_door_modules (lines 130-158) on every topology.
InitDoors ==
    /\ ClientInit /\ threads = {} /\ history = FALSE /\ doors = {}
    /\ homes_data \in Topologies

ParseDoorModules ==
    /\ ~parsed.done
    /\ parsed' = [done |-> TRUE, value |-> GetDoorModules(homes_data)]
    /\ UNCHANGED <<username, password, client_id, client_secret, access_token,
                   refresh_token, token_expires_at, now, ticks, issued, stamp,
                   threads, history, calls, doors, homes_data, recovered, is_on,
                   scheduled>>

NextDoors == ParseDoorModules

SpecDoors == InitDoors /\ [][NextDoors]_vars

\* ================================================================= claims
IsRequest(f) == f.op \in {"get_door_modules", "open_door"}
Last(seq) == seq[Len(seq)]
\* The events of a log after its first target request.
AfterFirstTarget(log) ==
    LET first == CHOOSE i \in DOMAIN log : log[i] = "target" /\ \A j \in 1..(i - 1) : log[j] # "target"
    IN  SubSeq(log, first + 1, Len(log))
FirstWas403(f) == IsRequest(f) /\ Len(f.resps) >= 1 /\ f.resps[1] = Forbidden

\* C1 as stated: whenever the first response is 403, the call makes exactly
\* one refresh and then exactly one retry with the token held after the
\* refresh, and nothing follows the retry.
C1_AlwaysRetries ==
    \A c \in threads :
        LET f == calls[c]
        IN  (f.pc = "done" /\ FirstWas403(f)) =>
                /\ Count(AfterFirstTarget(f.log), "refresh") = 1
                /\ Len(f.resps) = 2
                /\ f.req.bearer = access_token

\* C1 as amended: after a first response of 403 the call makes exactly one
\* refresh; when that refresh returns, exactly one retry follows, carrying the
\* access token the refresh left in the client, and the retry's response ends
\* the call whatever its status; when the refresh raises, the call raises
\* without a retry.
C1_RefreshOnceRetryOnce ==
    \A c \in threads :
        LET f == calls[c]
            after == AfterFirstTarget(f.log)
        IN  FirstWas403(f) =>
                /\ Count(after, "refresh") = 1
                /\ after[1] = "refresh"
                /\ Len(f.resps) <= 2
                /\ Count(after, "target") = Len(f.resps) - 1
                /\ f.pc = "retry" => f.headers = access_token /\ f.headers = f.token_data.access_token
                /\ Len(f.resps) = 2 =>
                      /\ Last(f.log) = "target"
                      /\ f.req.bearer = access_token
                      /\ f.req.bearer = f.token_data.access_token
                      /\ f.pc \in {"parse", "done"}
                /\ (f.pc = "done" /\ Len(f.resps) = 1) =>
                      f.result.kind = "raise" /\ f.result.call = 0

\* A first response of 403 and a retry that is answered 403 again: the call is
\* over, with two target requests and one refresh between them.
C1_Witness ==
    \E c \in threads :
        /\ calls[c].pc = "done" /\ calls[c].resps = <<Forbidden, Forbidden>>
        /\ calls[c].result.kind = "raise"
        /\ Count(calls[c].log, "refresh") = 1

\* C2: after a first response of 403, a failed retry raises the retry's error
\* (its status, or its transport failure), and a successful retry hands the
\* retry's response to the operation.
C2_RetryErrorIsFinal ==
    \A c \in threads :
        LET f == calls[c]
        IN  (IsRequest(f) /\ Len(f.resps) = 2) =>
                /\ f.resps[1] = Forbidden
                /\ f.resps[2] = NoResponse =>
                      /\ f.pc = "done" /\ f.result.kind = "raise"
                      /\ f.result.exc = "ConnectionError" /\ f.result.call = 2
                /\ f.resps[2] >= 400 =>
                      /\ f.pc = "done" /\ f.result.kind = "raise"
                      /\ f.result.exc = "HTTPError" /\ f.result.call = 2
                      /\ f.result.status = f.resps[2]
                /\ f.resps[2] = 200 =>
                      \/ f.pc = "parse"
                      \/ /\ f.pc = "done" /\ f.result.call = 2
                         /\ f.result.exc \in {"none", "JSONDecodeError"}

\* The first response is 403 and the retry is answered 500: the call raises
\* the HTTPError of the 500.
C2_Witness ==
    \E c \in threads :
        /\ calls[c].pc = "done" /\ calls[c].resps = <<Forbidden, 500>>
        /\ calls[c].result.status = 500 /\ calls[c].result.call = 2

\* The locations at which a caller reads a field of TokenState next, and those
\* at which it has written access_token but not yet token_expires_at.
ReadLocations == {"ensure", "ensure_expiry", "refresh_check", "attach", "reattach"}
MidUpdate(c) ==
    calls[c].pc \in {"auth_set_refresh", "auth_set_expires",
                     "refresh_set_refresh", "refresh_set_expires"}
Moves(c) == calls'[c] # calls[c]

\* C3: no caller reads a field of TokenState while an authenticate() or a
\* _refresh_access_token() of another caller has updated only some of
\* access_token, refresh_token and token_expires_at.
C3_AtomicTokenUpdates ==
    [][\A c \in threads :
          (calls[c].pc \in ReadLocations /\ Moves(c)) =>
              ~\E d \in threads \ {c} : MidUpdate(d)]_vars

\* The client holds the token of a password grant that was stored at this
\* very time.
FreshFromAuthenticate ==
    /\ stamp.grant = "password" /\ stamp.at = now
    /\ Truthy(access_token) /\ access_token = stamp.src

\* C4: _ensure_valid_token() right after a successful authenticate(), with no
\* time elapsed, makes no network call and leaves TokenState as it is.
C4_FreshTokenNotStale ==
    [][\A c \in threads :
          (/\ IsRequest(calls[c]) /\ calls[c].pc \in {"ensure", "ensure_expiry"}
           /\ FreshFromAuthenticate /\ Moves(c)) =>
              /\ calls'[c].pc \in {"ensure_expiry", "attach"}
              /\ calls'[c].log = calls[c].log
              /\ TokenState' = TokenState]_vars

\* C5: once a token response has been stored, token_expires_at is the time of
\* issue plus the response's expires_in (10800 when it has none) minus 300,
\* and after the authenticate() or the refresh has returned the access token
\* held is the one of that response.
C5_ExpiresAtFormula ==
    stamp.grant # "none" =>
        /\ token_expires_at =
              stamp.at + (IF stamp.expires_in = Absent THEN 10800 ELSE stamp.expires_in) - 300
        /\ (\A c \in threads : ~MidUpdate(c)) => access_token = stamp.src

\* A refresh grant without expires_in has been stored.
C5_Witness ==
    /\ stamp.grant = "refresh_token" /\ stamp.expires_in = Absent
    /\ token_expires_at = now + 10500
    /\ \A c \in threads : calls[c].pc = "idle"

\* A request that is invoked with a token held and the time at or past
\* token_expires_at.
StaleAtStart(f) ==
    IsRequest(f) /\ Truthy(f.start[1]) /\ f.start[3] # None /\ f.start[4] >= f.start[3]

\* The events of a log before its first target request.
BeforeFirstTarget(log) ==
    IF \E i \in DOMAIN log : log[i] = "target"
    THEN SubSeq(log, 1, Len(log) - Len(AfterFirstTarget(log)) - 1)
    ELSE log

\* C6: a request invoked with an expired token makes exactly one refresh
\* before its primary request, and the primary request carries the access
\* token held after that refresh.
C6_ExpiredTokenRefreshedFirst ==
    \A c \in threads :
        LET f == calls[c]
        IN  (StaleAtStart(f) /\ f.pc \notin {"ensure", "ensure_expiry"}) =>
                /\ Len(f.log) >= 1 /\ f.log[1] = "refresh"
                /\ Count(BeforeFirstTarget(f.log), "refresh") = 1
                /\ f.pc = "primary" =>
                      /\ f.headers = access_token
                      /\ f.headers = f.token_data.access_token
                      /\ f.headers # f.start[1]
                /\ Len(f.resps) = 1 => Truthy(f.req.bearer) /\ f.req.bearer # f.start[1]

\* The primary request of a call that began at the very second of expiry has
\* been sent, after one refresh grant.
C6_Witness ==
    \E c \in threads :
        /\ StaleAtStart(calls[c]) /\ calls[c].start[4] = calls[c].start[3]
        /\ calls[c].log = <<"refresh", "POST refresh_token", "target">>
        /\ calls[c].req.bearer # calls[c].start[1]

\* The last three events of a log are a failed refresh grant and the
\* authenticate() that the except clause calls.
FellBack(log) ==
    /\ Len(log) >= 3
    /\ SubSeq(log, Len(log) - 2, Len(log)) = <<"POST refresh_token", "authenticate", "POST password">>

\* C7: a refresh grant that fails with a transport or HTTP error does not end
\* the call: authenticate() is called with the stored credentials, and when
\* it succeeds the pending request (the primary request after
\* _ensure_valid_token, the retry after a 403) is issued with the access token
\* that authenticate() obtained.
C7_RefreshFailureFallsBack ==
    \A c \in threads :
        LET f == calls[c]
            in_authenticate == {"auth_post", "auth_set_access", "auth_set_refresh",
                                "auth_set_expires"}
        IN  /\ (f.pc = "done" /\ Len(f.log) >= 1 /\ Last(f.log) = "POST refresh_token") =>
                  f.result.exc = "KeyError"
            /\ (IsRequest(f) /\ FellBack(f.log)) =>
                  /\ f.form = [grant_type |-> "password", username |-> username,
                               password |-> password, client_id |-> client_id,
                               client_secret |-> client_secret]
                  /\ f.pc \in in_authenticate \cup {"done"} \cup
                        (IF Len(f.resps) = 0 THEN {"attach", "primary"}
                                             ELSE {"reattach", "retry"})
                  /\ f.pc = "done" =>
                        /\ f.result.kind = "raise" /\ f.result.call = 0
                        /\ f.result.exc \in {"HTTPError", "ConnectionError", "KeyError"}
                  /\ f.pc \in {"attach", "primary", "reattach", "retry"} =>
                        /\ access_token = f.token_data.access_token
                        /\ stamp.grant = "password" /\ stamp.src = access_token
                  /\ f.pc \in {"primary", "retry"} => f.headers = f.token_data.access_token

\* After a 403, the refresh grant failed, authenticate() succeeded and the
\* retry is about to go out with the new token.
C7_Witness ==
    \E c \in threads :
        /\ calls[c].pc = "retry" /\ FellBack(calls[c].log)
        /\ calls[c].resps = <<Forbidden>>
        /\ calls[c].headers = access_token /\ stamp.grant = "password"

\* The records of one home, as the claim words them: nothing without a module
\* of type BFII, else one record per module of type BNDL, in module order,
\* with the id of the home's (first) BFII module as bridge_id.
IsBridge(m) == m.type = "BFII"
IsDoor(m) == m.type = "BNDL"
ExpectedOfHome(home) ==
    IF \E i \in DOMAIN home.modules : IsBridge(home.modules[i])
    THEN LET bridge == SelectSeq(home.modules, IsBridge)[1]
             bndl == SelectSeq(home.modules, IsDoor)
         IN  [i \in 1..Len(bndl) |->
                 [home_id |-> home.id, home_name |-> home.name,
                  timezone |-> home.timezone, bridge_id |-> bridge.id,
                  module_id |-> bndl[i].id, module_name |-> bndl[i].name]]
    ELSE <<>>

RECURSIVE ExpectedDoors(_)
ExpectedDoors(homes) ==
    IF homes = <<>> THEN <<>>
    ELSE ExpectedOfHome(Head(homes)) \o ExpectedDoors(Tail(homes))

\* C8: get_door_modules() returns, for every topology, the records of the
\* homes in response order: per home with a BFII module one record per BNDL
\* module in module order, with the home's id, name and timezone, the module's
\* id and name and the bridge's id; homes without a BFII module and homes
\* without a BNDL module give nothing.
C8_DoorModulesOfTopology ==
    parsed.done => parsed.value = ExpectedDoors(homes_data)

\* Two homes: the first has a door, a bridge and another door, the second has
\* a door but no bridge.  The two doors of the first home are returned.
C8_Witness ==
    /\ parsed.done /\ Len(homes_data) = 2
    /\ Len(homes_data[1].modules) = 3
    /\ homes_data[1].modules[1].type = "BNDL" /\ homes_data[1].modules[2].type = "BFII"
    /\ homes_data[1].modules[3].type = "BNDL"
    /\ \E i \in DOMAIN homes_data[2].modules : homes_data[2].modules[i].type = "BNDL"
    /\ \A i \in DOMAIN homes_data[2].modules : homes_data[2].modules[i].type # "BFII"
    /\ Len(parsed.value) = 2
    /\ parsed.value[1].module_id = 11 /\ parsed.value[2].module_id = 13
    /\ parsed.value[1].bridge_id = 12

\* C9: every request of open_door, the retry after a 403 included, has the
\* body with home.id, home.timezone, one modules entry with bridge, id and
\* lock = false as passed in; open_door returns True only after a final
\* response of success, and raises when the final response is none.
C9_OpenDoorBody ==
    \A c \in threads :
        LET f == calls[c]
        IN  f.op = "open_door" =>
                /\ f.req # NoRequest =>
                      /\ f.req.method = "POST" /\ f.req.url = "setstate"
                      /\ Len(f.req.json) = 1
                      /\ LET body == f.req.json[1]
                         IN  /\ body.home.id = f.args.home_id
                             /\ body.home.timezone = f.args.timezone
                             /\ Len(body.home.modules) = 1
                             /\ body.home.modules[1].bridge = f.args.bridge_id
                             /\ body.home.modules[1].id = f.args.module_id
                             /\ body.home.modules[1].lock = FALSE
                /\ Len(f.log) >= 1 /\ Last(f.log) = "target" => f.req # NoRequest
                /\ f.pc = "done" =>
                      /\ f.result.kind \in {"return", "raise"}
                      /\ f.result.kind = "return" =>
                            /\ f.result.value = <<TRUE>>
                            /\ Len(f.resps) >= 1 /\ Last(f.resps) = 200
                      /\ (Len(f.resps) = 0 \/ Last(f.resps) # 200) => f.result.kind = "raise"

\* open_door with an empty home id and timezone: the first response was 403,
\* the retry succeeded and open_door returned True.
C9_Witness ==
    \E c \in threads :
        /\ calls[c].op = "open_door" /\ calls[c].pc = "done"
        /\ calls[c].args.home_id = 0 /\ calls[c].args.timezone = 0
        /\ calls[c].resps = <<Forbidden, 200>>
        /\ calls[c].result.value = <<TRUE>>
        /\ calls[c].req.json[1].home.modules[1].bridge = 12

\* A request that is invoked with a token held and the time before
\* token_expires_at.
ValidAtStart(f) ==
    IsRequest(f) /\ Truthy(f.start[1]) /\ f.start[3] # None /\ f.start[4] < f.start[3]

WritesToken(c) ==
    calls[c].pc \in {"auth_set_access", "auth_set_refresh", "auth_set_expires",
                     "refresh_set_access", "refresh_set_refresh", "refresh_set_expires"}

\* C10: a discovery or control call that starts with a valid token and whose
\* first response is not 403 leaves TokenState as it was at its start, whether
\* it succeeds or fails.
C10_ValidTokenUntouched ==
    \A c \in threads :
        LET f == calls[c]
        IN  (ValidAtStart(f) /\ (Len(f.resps) = 0 \/ f.resps[1] # Forbidden)) =>
                /\ TokenState = <<f.start[1], f.start[2], f.start[3]>>
                /\ f.log \in {<<>>, <<"target">>}

\* C10: TokenState changes only in a statement of authenticate() or of
\* _refresh_access_token(); a call that starts with a valid token and is not
\* answered 403 leaves it unchanged; the credentials never change.
C10_TokenStateFrame ==
    /\ []C10_ValidTokenUntouched
    /\ [][TokenState' # TokenState => \E c \in threads : WritesToken(c) /\ Moves(c)]_vars
    /\ [][credentials' = credentials]_vars

\* A call with a valid token was answered 500 and raised; the token is the
\* one it started with.
C10_Witness ==
    \E c \in threads :
        /\ ValidAtStart(calls[c]) /\ calls[c].pc = "done"
        /\ calls[c].resps = <<500>> /\ calls[c].result.kind = "raise"
        /\ access_token = calls[c].start[1]

Quiescent == \A c \in threads : calls[c].pc \in {"idle", "done"}

\* C11: all three fields of TokenState are absent until a token response has
\* been stored, and whenever every operation on the client has completed
\* (returned or raised), a present access_token comes with a present
\* token_expires_at.
C11_ExpiryPresentWithToken ==
    /\ issued = 0 => TokenState = <<None, None, None>>
    /\ Quiescent => (access_token # None => token_expires_at # None)

\* An authenticate() has failed on a client that holds a token from an
\* earlier grant.
C11_Witness ==
    \E c \in threads :
        /\ calls[c].pc = "done" /\ calls[c].op = "authenticate"
        /\ calls[c].result.kind = "raise"
        /\ access_token # None /\ token_expires_at # None

\* C13 (state part): a first response that is an error status other than 403,
\* or no response at all, ends the call at once: it raises the error of the
\* primary request, and no refresh, authenticate() or retry follows.
C13_RaisedAtOnce ==
    \A c \in threads :
        LET f == calls[c]
        IN  (IsRequest(f) /\ Len(f.resps) >= 1 /\ f.resps[1] \notin {200, Forbidden}) =>
                /\ f.pc = "done" /\ f.result.kind = "raise" /\ f.result.call = 1
                /\ Len(f.resps) = 1 /\ AfterFirstTarget(f.log) = <<>>
                /\ f.result.exc = (IF f.resps[1] = NoResponse THEN "ConnectionError"
                                                             ELSE "HTTPError")
                /\ f.resps[1] # NoResponse => f.result.status = f.resps[1]

\* C13: when the primary request fails at transport level or is answered
\* with an error status other than 403, the call raises without a refresh, a
\* re-authentication or a retry, and TokenState is what it was when the
\* primary request was issued.
C13_OtherFailuresPropagate ==
    /\ []C13_RaisedAtOnce
    /\ [][\A c \in threads :
             (/\ calls[c].pc = "primary" /\ Moves(c)
              /\ calls'[c].resps[1] \notin {200, Forbidden}) =>
                 TokenState' = TokenState]_vars

\* get_door_modules was answered 500 on its primary request and raised.
C13_Witness ==
    \E c \in threads :
        /\ calls[c].op = "get_door_modules" /\ calls[c].pc = "done"
        /\ calls[c].resps = <<500>> /\ calls[c].result.exc = "HTTPError"
        /\ calls[c].result.status = 500

\* The events of a log from its last call of _refresh_access_token() on.
SinceLastRefresh(log) ==
    LET last == CHOOSE i \in DOMAIN log :
                    log[i] = "refresh" /\ \A j \in (i + 1)..Len(log) : log[j] # "refresh"
    IN  SubSeq(log, last, Len(log))

\* The last _refresh_access_token() of a call went straight to authenticate().
Delegated(log) ==
    /\ \E i \in DOMAIN log : log[i] = "refresh"
    /\ Len(SinceLastRefresh(log)) >= 2
    /\ SinceLastRefresh(log)[2] = "authenticate"

\* C14 (state part): a _refresh_access_token() that went straight to
\* authenticate() sends one password grant and no refresh grant, and when the
\* password grant fails the call raises.
C14_OnePasswordGrant ==
    \A c \in threads :
        LET f == calls[c]
        IN  Delegated(f.log) =>
                /\ SinceLastRefresh(f.log) \in
                      {<<"refresh", "authenticate">>,
                       <<"refresh", "authenticate", "POST password">>,
                       <<"refresh", "authenticate", "POST password", "target">>}
                /\ f.pc = "auth_post" <=> Last(f.log) = "authenticate"
                /\ (f.pc = "done" /\ Last(f.log) = "POST password") =>
                      /\ f.result.kind = "raise" /\ f.result.call = 0
                      /\ f.result.exc \in {"HTTPError", "ConnectionError", "KeyError"}

\* C14: _refresh_access_token() without a refresh token held sends no refresh
\* grant and calls authenticate() once, which sends one password grant; a
\* failure of that authenticate() is raised to the caller.
C14_NoRefreshTokenDelegates ==
    /\ []C14_OnePasswordGrant
    /\ [][\A c \in threads :
             (calls[c].pc = "refresh_check" /\ ~Truthy(refresh_token) /\ Moves(c)) =>
                 /\ calls'[c].pc = "auth_post"
                 /\ calls'[c].log = Append(calls[c].log, "authenticate")
                 /\ calls'[c].form = calls[c].form]_vars

\* A request found its token expired, held no refresh token (the password
\* grant had omitted it), called authenticate() and that failed.
C14_Witness ==
    \E c \in threads :
        /\ calls[c].pc = "done" /\ calls[c].result.kind = "raise"
        /\ calls[c].log = <<"refresh", "authenticate", "POST password">>
        /\ Truthy(calls[c].start[1]) /\ calls[c].start[2] = None
        /\ calls[c].form.grant_type = "password"

\* The caller has just returned from a refresh grant that succeeded: the last
\* form it sent to the token endpoint is the refresh form, and
\* _refresh_access_token() has returned to line 98 or to line 110.
RefreshGrantReturned(f) ==
    f.pc \in {"attach", "reattach"} /\ f.form.grant_type = "refresh_token"

\* C15: after a successful refresh grant access_token is the access token of
\* the response, token_expires_at is computed anew from the response, and
\* refresh_token is the response's refresh token when it has one and else the
\* refresh token that was held (and sent) before; a refresh token is held
\* afterwards in either case.
C15_RefreshGrantStores ==
    \A c \in threads :
        LET f == calls[c]
            td == f.token_data
        IN  RefreshGrantReturned(f) =>
                /\ td.access_token # Absent /\ access_token = td.access_token
                /\ access_token > f.form.refresh_token   \* issued later
                /\ token_expires_at =
                      f.received + (IF td.expires_in = Absent THEN 10800 ELSE td.expires_in) - 300
                /\ stamp.grant = "refresh_token" /\ stamp.src = td.access_token
                /\ Truthy(f.form.refresh_token)
                /\ td.refresh_token # Absent => refresh_token = td.refresh_token
                /\ td.refresh_token = Absent => refresh_token = f.form.refresh_token
                /\ Truthy(refresh_token)

\* A refresh grant whose response carried no refresh token has returned: the
\* refresh token of the earlier password grant is still held, next to the new
\* access token.
C15_Witness ==
    \E c \in threads :
        /\ RefreshGrantReturned(calls[c])
        /\ calls[c].token_data.refresh_token = Absent
        /\ refresh_token = calls[c].form.refresh_token /\ refresh_token = 1
        /\ access_token = 2

\* C17: an authenticate() that fails (the request fails, the status is an
\* error, the response has no access_token) raises and leaves TokenState as it
\* was when it was called, and so does a _refresh_access_token() whose refresh
\* grant fails and whose authenticate() fails too: a call that raises out of
\* the token endpoint holds the TokenState it began with, or, when it had
\* already sent its primary request, the access token that request carried.
C17_FailedGrantKeepsTokenState ==
    \A c \in threads :
        LET f == calls[c]
        IN  /\ (f.op = "authenticate" /\ f.pc = "done") =>
                  /\ f.result.kind = "raise" <=> f.token_data.access_token = Absent
                  /\ f.result.kind = "raise" =>
                        f.result.exc \in {"HTTPError", "ConnectionError", "KeyError"}
            /\ (IsRequest(f) /\ f.pc = "done" /\ Len(f.log) >= 1
                             /\ Last(f.log) \in {"POST password", "POST refresh_token"}) =>
                  f.result.kind = "raise" /\ f.result.call = 0
            /\ (f.pc = "done" /\ f.result.kind = "raise" /\ f.result.call = 0) =>
                  /\ (Len(f.resps) = 0 \/ BeforeFirstTarget(f.log) = <<>>) =>
                        TokenState = <<f.start[1], f.start[2], f.start[3]>>
                  /\ Len(f.resps) = 1 =>
                        access_token = f.req.bearer /\ stamp.src = access_token

\* After a 403 the refresh grant failed and the password grant failed as
\* well: the client holds the token pair it held before the call.
C17_Witness ==
    \E c \in threads :
        /\ calls[c].pc = "done" /\ calls[c].result.kind = "raise"
        /\ calls[c].log = <<"target", "refresh", "POST refresh_token",
                            "authenticate", "POST password">>
        /\ Truthy(calls[c].start[1]) /\ Truthy(calls[c].start[2])
        /\ TokenState = <<calls[c].start[1], calls[c].start[2], calls[c].start[3]>>

\* C16: once the concurrent authenticate() and _refresh_access_token() calls
\* of two callers have completed, the fields of TokenState come from one and
\* the same token response: token_expires_at is the one computed from the
\* response that issued the access token held, and refresh_token is the
\* refresh token of that response when it carried one.
C16_OneResponseHeld ==
    \A c \in threads :
        LET f == calls[c]
            td == f.token_data
        IN  (Quiescent /\ f.pc = "done" /\ td.access_token # Absent
                       /\ td.access_token = access_token) =>
                /\ token_expires_at =
                      f.received + (IF td.expires_in = Absent THEN 10800 ELSE td.expires_in) - 300
                /\ td.refresh_token # Absent => refresh_token = td.refresh_token

\* C19 (state part): the access token held is absent or one that a token
\* response issued, and every request sent to the topology or the control
\* endpoint, and every bearer token attached to one about to be sent, is one
\* that a token response issued.
C19_BearerWasIssued ==
    /\ access_token \in {None} \cup 1..issued
    /\ \A c \in threads :
          LET f == calls[c]
          IN  /\ f.req # NoRequest => f.req.bearer \in 1..issued
              /\ f.pc \in {"primary", "retry"} => f.headers \in 1..issued
              /\ Len(f.resps) >= 1 => f.req # NoRequest

\* C19: under every interleaving of the callers' operations, an access token
\* that has been set is never absent again, and no request to the topology or
\* control endpoint goes out without a bearer token issued by the server.
C19_TokenNeverAbsentAgain ==
    /\ []C19_BearerWasIssued
    /\ [][Truthy(access_token) => Truthy(access_token')]_vars

\* Two callers each obtained a token; the request of one of them has been
\* sent with the token that the other one stored.
C19_Witness ==
    \E c \in threads : \E d \in threads \ {c} :
        /\ calls[c].req # NoRequest /\ calls[c].token_data.access_token = 1
        /\ calls[d].token_data.access_token = 2
        /\ calls[c].req.bearer = 2 /\ access_token = 2

\* C18 (state part): a call of _make_authenticated_request has sent at most
\* two requests to its target url and at most four to the token endpoint (at
\* most two refresh grants and two password grants).
C18_BoundedCalls ==
    \A c \in threads :
        LET f == calls[c]
        IN  IsRequest(f) =>
                /\ Len(f.resps) <= 2 /\ Count(f.log, "target") = Len(f.resps)
                /\ Count(f.log, "POST refresh_token") <= 2
                /\ Count(f.log, "POST password") <= 2
                /\ Count(f.log, "refresh") <= 2
                /\ Count(BeforeFirstTarget(f.log), "POST refresh_token")
                      + Count(BeforeFirstTarget(f.log), "POST password") <= 2

\* C18: every call of _make_authenticated_request returns or raises, whatever
\* the server answers, after at most 2 requests to the target url and at most
\* 4 to the token endpoint.
C18_TerminatesBounded ==
    /\ []C18_BoundedCalls
    /\ \A c \in Callers : IsRequest(calls[c]) ~> calls[c].pc = "done"

\* The worst case: the refresh grant fails and authenticate() is called, both
\* before the primary request and after its 403.
C18_Witness ==
    \E c \in threads :
        /\ calls[c].pc = "done" /\ calls[c].resps = <<Forbidden>>
        /\ calls[c].log = <<"refresh", "POST refresh_token", "authenticate", "POST password",
                            "target",
                            "refresh", "POST refresh_token", "authenticate", "POST password">>

\* _make_authenticated_request has returned the response of a successful
\* request to the operation that called it.
Succeeded(f) ==
    \/ f.pc = "parse"
    \/ /\ f.pc = "done" /\ Len(f.resps) >= 1 /\ Last(f.resps) = 200
       /\ f.result.call = Len(f.resps)

\* C12 (state part): on a recovered server no discovery or control call ends
\* in an error of _make_authenticated_request, whatever the client held and
\* whichever calls failed before.
C12_NoFailureOnceRecovered ==
    \A c \in threads :
        (recovered # None /\ IsRequest(calls[c]) /\ calls[c].pc = "done") =>
            Succeeded(calls[c])

\* C12: the client has no state in which it stays broken: once the server
\* accepts the stored credentials and the tokens it issues, every
\* _make_authenticated_request returns a successful response, after any
\* earlier sequence of failed and successful operations and with any stale or
\* revoked token held.
C12_NoTerminalErrorState ==
    /\ []C12_NoFailureOnceRecovered
    /\ \A c \in Callers :
          (recovered # None /\ IsRequest(calls[c])) ~> Succeeded(calls[c])

\* After the recovery the token held was rejected with 403 and the refresh
\* token was rejected too; authenticate() obtained a new token and the retry
\* succeeded.
C12_Witness ==
    \E c \in threads :
        /\ recovered # None /\ calls[c].pc = "parse"
        /\ calls[c].resps = <<Forbidden, 200>>
        /\ calls[c].log = <<"target", "refresh", "POST refresh_token", "authenticate",
                            "POST password", "target">>
        /\ Truthy(calls[c].start[1]) /\ calls[c].req.bearer > recovered

\* C20 (state part): while the switch is on, an auto-turn-off is pending.
C20_ResetPending == is_on => scheduled >= 1

\* C20: the switch starts off; it becomes on only in the step in which an
\* async_turn_on sees its open_door return without error, and that step
\* schedules an auto-turn-off; an async_turn_on whose open_door raised sets
\* nothing on and schedules nothing; and a switch that is on is off again
\* later without any action of the user.
C20_MomentarySwitch ==
    /\ ~is_on /\ scheduled = 0
    /\ []C20_ResetPending
    /\ [][(~is_on /\ is_on') =>
            /\ scheduled' = scheduled + 1
            /\ \E c \in threads :
                  /\ calls[c].pc = "done" /\ calls[c].op = "open_door"
                  /\ calls[c].result.kind = "return" /\ calls[c].result.value = <<TRUE>>
                  /\ Last(calls[c].resps) = 200
                  /\ Moves(c)]_vars
    /\ [][scheduled' > scheduled => is_on']_vars
    /\ [][\A c \in threads :
             (calls[c].pc = "done" /\ calls[c].result.kind = "raise" /\ Moves(c)) =>
                 /\ is_on' = is_on /\ scheduled' = scheduled]_vars
    /\ is_on ~> ~is_on

\* The switch is on after a successful open_door, with its reset pending and
\* the next async_turn_on already failed.
C20_Witness ==
    \E c \in threads :
        /\ is_on /\ scheduled = 1
        /\ calls[c].pc = "done" /\ calls[c].result.kind = "raise"
====
